---- MODULE Spec2Model ----
(***************************************************************************)
(* Model of the podman container engine adapter                            *)
(* (src/aap_eda/services/activation/engine/podman.py, class Engine).       *)
(*                                                                         *)
(* One caller drives one container id through the adapter's operations     *)
(* (cleanup, get_status, update_logs).  Every call the adapter makes to    *)
(* the engine client is one step, so that the engine can change between    *)
(* two calls of the same operation: the container can be removed out of    *)
(* band, it can emit log lines, and a call can fail with a generic         *)
(* APIError.  The engine answers a call on an absent container with        *)
(* NotFound, which is a subclass of APIError in the client library.        *)
(*                                                                         *)
(* Time: a log line carries a timestamp in ticks; SubTicks ticks make one  *)
(* unit of the watermark's (datetime) precision and UnitsPerSec units make *)
(* one second, the precision of the engine's "since" parameter.            *)
(***************************************************************************)
EXTENDS Integers, Sequences, FiniteSets, TLC

\* ---------------------------------------------------------------- bounds
MaxOps == 3
MaxFaults == 1
MaxLines == 2
MaxSec == 2
UnitsPerSec == 2
SubTicks == 2
MaxExit == 2

TicksPerSec == UnitsPerSec * SubTicks
MaxTs == MaxSec * TicksPerSec - 1

\* The absent value (Python None) of the watermark and of "since".
None == -1
\* exit_code placeholder of a message whose template does not show it.
NoCode == -1

\* The container id the caller holds.
CID == "c1"

\* ------------------------------------------------------ error taxonomy
\* isinstance(e, APIError): NotFound and ImageNotFound derive from APIError.
IsAPIError(e) == e \in {"APIError", "NotFound", "ImageNotFound"}

\* ------------------------------------------------------- status mapping
ExitedStates == {"exited", "stopped"}
RunningStates == {"running", "stopping"}
WrongStates ==
    {"paused", "restarting", "removing", "dead", "configured", "unknown"}
KnownStates == ExitedStates \cup RunningStates \cup {"created"} \cup WrongStates
UndocumentedStates == {"initialized", "weird"}
EngineStates == KnownStates \cup UndocumentedStates
ErrorTexts == {"", "oom"}
ExitCodes == 0..MaxExit

\* Placeholders each message template of module messages shows.
TemplateFields ==
    [POD_COMPLETED |-> {},
     POD_RUNNING |-> {},
     POD_GENERIC_FAIL |-> {"pod_id", "exit_code"},
     POD_NOT_RUNNING |-> {"pod_id"},
     POD_WRONG_STATE |-> {"pod_state"},
     POD_UNEXPECTED |-> {"pod_state"}]

\* template.format(pod_id=..., pod_state=..., exit_code=...): the text is
\* the template with the keyword arguments it shows; the others are dropped.
Format(tmpl, pod_id, pod_state, exit_code) ==
    [text |-> tmpl,
     pod_id |-> IF "pod_id" \in TemplateFields[tmpl] THEN pod_id ELSE "",
     pod_state |-> IF "pod_state" \in TemplateFields[tmpl] THEN pod_state ELSE "",
     exit_code |-> IF "exit_code" \in TemplateFields[tmpl] THEN exit_code ELSE NoCode]

\* A message that is the engine's error text, verbatim.
EngineText(error_msg) ==
    [text |-> error_msg, pod_id |-> "", pod_state |-> "", exit_code |-> NoCode]

NoMessage == [text |-> "", pod_id |-> "", pod_state |-> "", exit_code |-> NoCode]

ContainerStatus(status, message) == [status |-> status, message |-> message]

\* get_status, lines 171-238: the translation of the fetched container.
GetStatusMut5(container_id, status, exit_code, error_msg) ==
    IF status \in ExitedStates
    THEN IF exit_code = 0 /\ error_msg = ""
         THEN ContainerStatus("COMPLETED",
                  Format("POD_COMPLETED", container_id, "", NoCode))
         ELSE ContainerStatus("FAILED",
                  IF error_msg = ""
                  THEN Format("POD_GENERIC_FAIL", container_id, "", exit_code)
                  ELSE EngineText(error_msg))
    ELSE IF status \in RunningStates
    THEN ContainerStatus("RUNNING", Format("POD_RUNNING", container_id, "", NoCode))
    ELSE IF status = "created"
    THEN ContainerStatus("FAILED",
             IF error_msg = ""
             THEN Format("POD_NOT_RUNNING", container_id, "", NoCode)
             ELSE EngineText(error_msg))
    ELSE IF status \in WrongStates
    THEN ContainerStatus("FAILED",
             Format("POD_WRONG_STATE", container_id, status, NoCode))
    ELSE ContainerStatus("ERROR",
             Format("POD_UNEXPECTED", container_id, status, NoCode))

GetStatusMut4(container_id, status, exit_code, error_msg) ==
    IF status \in ExitedStates
    THEN IF exit_code = 0
         THEN ContainerStatus("COMPLETED",
                  Format("POD_COMPLETED", container_id, "", NoCode))
         ELSE ContainerStatus("FAILED",
                  IF error_msg = ""
                  THEN Format("POD_GENERIC_FAIL", container_id, "", exit_code)
                  ELSE EngineText(error_msg))
    ELSE IF status \in RunningStates
    THEN ContainerStatus("RUNNING", Format("POD_RUNNING", container_id, "", NoCode))
    ELSE IF status = "created"
    THEN ContainerStatus("FAILED",
             IF error_msg = ""
             THEN Format("POD_NOT_RUNNING", container_id, "", NoCode)
             ELSE EngineText(error_msg))
    ELSE ContainerStatus("FAILED",
             Format("POD_WRONG_STATE", container_id, status, NoCode))

GetStatusMut6(container_id, status, exit_code, error_msg) ==
    IF status \in ExitedStates
    THEN IF exit_code = 0
         THEN ContainerStatus("COMPLETED",
                  Format("POD_COMPLETED", container_id, "", NoCode))
         ELSE ContainerStatus("FAILED",
                  IF error_msg = ""
                  THEN Format("POD_GENERIC_FAIL", container_id, "", exit_code)
                  ELSE EngineText(error_msg))
    ELSE IF status = "running"
    THEN ContainerStatus("RUNNING", Format("POD_RUNNING", container_id, "", NoCode))
    ELSE IF status = "created"
    THEN ContainerStatus("FAILED",
             IF error_msg = ""
             THEN Format("POD_NOT_RUNNING", container_id, "", NoCode)
             ELSE EngineText(error_msg))
    ELSE IF status \in WrongStates
    THEN ContainerStatus("FAILED",
             Format("POD_WRONG_STATE", container_id, status, NoCode))
    ELSE ContainerStatus("ERROR",
             Format("POD_UNEXPECTED", container_id, status, NoCode))

GetStatus(container_id, status, exit_code, error_msg) ==
    IF status \in ExitedStates
    THEN IF exit_code = 0
         THEN ContainerStatus("COMPLETED",
                  Format("POD_COMPLETED", container_id, "", NoCode))
         ELSE ContainerStatus("FAILED",
                  IF error_msg = ""
                  THEN Format("POD_GENERIC_FAIL", container_id, "", exit_code)
                  ELSE EngineText(error_msg))
    ELSE IF status \in RunningStates
    THEN ContainerStatus("RUNNING", Format("POD_RUNNING", container_id, "", NoCode))
    ELSE IF status = "created"
    THEN ContainerStatus("FAILED",
             IF error_msg = ""
             THEN Format("POD_NOT_RUNNING", container_id, "", NoCode)
             ELSE EngineText(error_msg))
    ELSE IF status \in WrongStates
    THEN ContainerStatus("FAILED",
             Format("POD_WRONG_STATE", container_id, status, NoCode))
    ELSE ContainerStatus("ERROR",
             Format("POD_UNEXPECTED", container_id, status, NoCode))

\* ------------------------------------------------------------ log lines
\* int(dt.timestamp()): a watermark (datetime units) floored to seconds.
TimestampInt(dt) == dt \div UnitsPerSec

\* parser.parse(timestamp), line 267: the line's timestamp at the
\* precision of a datetime (finer digits are dropped).
Parse(ts) == ts \div SubTicks

\* update_logs, lines 247-250: the "since" of the request, in seconds.
SinceMut(log_read_at_value) ==
    IF log_read_at_value # None THEN TimestampInt(log_read_at_value) ELSE None

Since(log_read_at_value) ==
    IF log_read_at_value # None THEN TimestampInt(log_read_at_value) + 1 ELSE None

\* update_logs, lines 253-255: "since" is passed only when it is truthy.
HasSinceArg(s) == s # None /\ s # 0

\* container.logs(timestamps=True, since=s): the engine returns the lines
\* timestamped at or after second s, all lines without the argument.
LogLines(log, s) ==
    {i \in 1..Len(log) :
        HasSinceArg(s) => log[i].ts >= s * TicksPerSec}

\* The orders in which the engine can deliver a set of lines.
Orders(S) ==
    {q \in [1..Cardinality(S) -> S] :
        \A i, j \in 1..Cardinality(S) : i # j => q[i] # q[j]}

\* update_logs, lines 258-264: the payloads forwarded to the sink, in
\* delivery order; a line that is only a timestamp has one part and is
\* not forwarded.
RECURSIVE Forwarded(_, _)
Forwarded(log, order) ==
    IF order = <<>> THEN <<>>
    ELSE LET i == Head(order)
             rest == Forwarded(log, Tail(order))
         IN IF log[i].payload
            THEN <<[kind |-> "line", text |-> "", line |-> i]>> \o rest
            ELSE rest

\* The forwarding counts after the lines of a delivery were forwarded.
CountForwarded(count, log, order) ==
    [i \in DOMAIN count |->
        IF \E k \in 1..Len(order) : order[k] = i /\ log[i].payload
        THEN count[i] + 1
        ELSE count[i]]

\* update_logs, lines 256-260 and 266-269: the watermark after the loop is
\* the parsed timestamp of the last line read, if a line was read.
NewLogReadAtMut(log, order, old) ==
    IF \E k \in 1..Len(order) : log[order[k]].payload
    THEN LET k == CHOOSE k \in 1..Len(order) :
                    /\ log[order[k]].payload
                    /\ \A m \in (k+1)..Len(order) : ~log[order[m]].payload
         IN Parse(log[order[k]].ts)
    ELSE old

NewLogReadAt(log, order, old) ==
    IF order = <<>> THEN old ELSE Parse(log[order[Len(order)]].ts)

Notice(text) == [kind |-> "notice", text |-> text, line |-> 0]

\* ------------------------------------------- requests and the auth file
\* Text that gets encoded is a sequence of byte values (ASCII codes).
Colon == 58
Usernames == {<<117>>}
Secrets == {<<112>>, <<112, 119>>, <<112, 119, 100>>}

\* request.credential: None, or a username and a secret.
NoCredential == [username |-> <<>>, secret |-> <<>>]
Credentials == [username : Usernames, secret : Secrets]

\* request.image_url: the components between the "/" of the reference; the
\* empty sequence is the empty string.
Registries == {"r1", "r2"}
ImageUrls == {<<>>} \cup {<<r, "app">> : r \in Registries}
PullPolicies == {"Always", "IfNotPresent"}

NoRequest == [image_url |-> <<>>, pull_policy |-> "", credential |-> NoCredential]

\* request.image_url.split("/")[0], lines 301 and 327.
Registry(image_url) == IF image_url = <<>> THEN "" ELSE image_url[1]

\* The "=" that fills the last group of a base64 text.
Pad == 64

\* base64.b64encode, line 338: three bytes give four symbols of six bits
\* (0..63); a last group of one or two bytes is filled with Pad.
RECURSIVE B64Encode(_)
B64Encode(bytes) ==
    IF bytes = <<>> THEN <<>>
    ELSE LET n == Len(bytes)
             b2 == IF n >= 2 THEN bytes[2] ELSE 0
             b3 == IF n >= 3 THEN bytes[3] ELSE 0
             v == bytes[1] * 65536 + b2 * 256 + b3
             c3 == IF n >= 2 THEN (v \div 64) % 64 ELSE Pad
             c4 == IF n >= 3 THEN v % 64 ELSE Pad
         IN <<v \div 262144, (v \div 4096) % 64, c3, c4>>
                \o (IF n > 3 THEN B64Encode(SubSeq(bytes, 4, n)) ELSE <<>>)

\* _create_auth_key, lines 335-338: the "auth" value of a registry entry.
CreateAuthKey(credential) ==
    B64Encode(credential.username \o <<Colon>> \o credential.secret)

\* A registry without an entry in the auth file.
NoEntry == <<>>
\* An entry another client has written ("x:y").
OtherEntry == B64Encode(<<120, Colon, 121>>)

\* self.auth_file: None, or the path of the auth file.
NoPath == ""
AuthPath == "containers/auth.json"

\* _set_auth_json_file, lines 340-351.
SetAuthJsonFile(dir_exists) == IF dir_exists THEN AuthPath ELSE NoPath

\* _write_auth_json, lines 315-333: the "auths" of the file after the call.
WriteAuthJsonMut(auth_file_value, auths, request_value) ==
    IF auth_file_value = NoPath THEN auths
    ELSE [r \in Registries |->
            IF r = Registry(request_value.image_url)
            THEN CreateAuthKey(request_value.credential)
            ELSE NoEntry]

WriteAuthJson(auth_file_value, auths, request_value) ==
    IF auth_file_value = NoPath THEN auths
    ELSE [auths EXCEPT ![Registry(request_value.image_url)] =
             CreateAuthKey(request_value.credential)]

\* The id the engine gives to a container it creates.
NewId == "c2"

\* ---------------------------------------------------------------- state
VARIABLES
    present,        \* the engine has the container CID
    elog,           \* the lines the container has emitted, oldest first
    faultBudget,    \* generic failures the engine may still answer
    log_read_at,    \* the log handler's watermark (datetime units) or None
    sink,           \* what the current call has written to the log handler
    pc,             \* the caller's position
    op,             \* the operation in progress
    outcome,        \* how the last operation ended
    nOps,           \* operations completed
    calls,          \* engine calls of the operation in progress, in order
    faults,         \* generic failures answered during the operation
    absentSeen,     \* the container was absent at some engine call of it
    raced,          \* the container was removed while some operation ran
    existedOuter,   \* cleanup: the container existed at line 82
    existsAfterStop,\* cleanup: the container still existed after the stop
    since,          \* update_logs: the "since" computed at line 250
    wmBefore,       \* update_logs: the watermark read at line 248
    got,            \* update_logs: the lines delivered, in delivery order
    ulRead,         \* update_logs: the logs call of this operation returned
    attrs,          \* get_status: the container fetched at line 170
    removeCalls,    \* remove calls the engine has received
    cleanups,       \* cleanup calls completed
    fwdCount,       \* how many times each emitted line was forwarded
    readLen,        \* update_logs: the lines emitted when the log was read
    request,        \* start: the request
    retId,          \* start: the container id returned
    lookup,         \* start: what the image lookup of line 118 found
    pulled,         \* start: how the pull ended
    inlineAuth,     \* start: the pull call was given auth_config
    authFileBefore, \* start: self.auth_file when start was called
    auth_file,      \* self.auth_file
    authDir,        \* the directory of the auth file exists
    fileAuths,      \* the "auths" of the auth file, per registry
    imagePresent    \* the engine has the image locally

engineVars == <<present, elog, faultBudget>>
sinkVars == <<log_read_at, sink>>
callerVars == <<pc, op, outcome, nOps>>
histVars == <<calls, faults, absentSeen, raced, existedOuter, existsAfterStop>>
ulVars == <<since, wmBefore, got, ulRead>>
cumVars == <<removeCalls, cleanups>>
logHistVars == <<fwdCount, readLen>>
startCallVars == <<request, retId, lookup, pulled, inlineAuth, authFileBefore>>
startEnvVars == <<auth_file, authDir, fileAuths, imagePresent>>
vars == <<engineVars, sinkVars, callerVars, histVars, ulVars, attrs, cumVars,
          logHistVars, startCallVars, startEnvVars>>

NoAttrs == [status |-> "", exit_code |-> NoCode, error |-> ""]
NoOutcome == [op |-> "none", err |-> "none", status |-> "", message |-> NoMessage]

Init ==
    /\ present = TRUE
    /\ elog = <<>>
    /\ faultBudget = MaxFaults
    /\ log_read_at = None
    /\ sink = <<>>
    /\ pc = "idle"
    /\ op = "none"
    /\ outcome = NoOutcome
    /\ nOps = 0
    /\ calls = <<>>
    /\ faults = 0
    /\ absentSeen = FALSE
    /\ raced = FALSE
    /\ existedOuter = FALSE
    /\ existsAfterStop = FALSE
    /\ since = None
    /\ wmBefore = None
    /\ got = <<>>
    /\ ulRead = FALSE
    /\ attrs = NoAttrs
    /\ removeCalls = 0
    /\ cleanups = 0
    /\ fwdCount = [i \in 1..MaxLines |-> 0]
    /\ readLen = 0
    /\ request = NoRequest
    /\ retId = ""
    /\ lookup = "none"
    /\ pulled = "none"
    /\ inlineAuth = FALSE
    /\ authFileBefore = NoPath
    /\ auth_file = NoPath
    /\ authDir = FALSE
    /\ fileAuths = [r \in Registries |-> NoEntry]
    /\ imagePresent = FALSE

\* ------------------------------------------------------ the environment
\* The container is removed by something other than this caller's remove
\* (another client, or the engine's automatic removal of a container that
\* was run with remove=True), possibly while an operation is in progress.
OutOfBandRemove ==
    /\ present
    /\ present' = FALSE
    /\ raced' = (raced \/ pc # "idle")
    /\ UNCHANGED <<elog, faultBudget, sinkVars, callerVars, calls, faults,
                   absentSeen, existedOuter, existsAfterStop, ulVars, attrs,
                   cumVars>>
    /\ UNCHANGED <<logHistVars, startCallVars, startEnvVars>>

\* The distances in ticks between a line and the line before it (the
\* first line: from tick 0): the same tick, the next tick, one unit of the
\* watermark's precision later, one second later.
Gaps == {0, 1, SubTicks, TicksPerSec}

\* The container writes a line to its log; the engine stamps it with its
\* clock, which does not go back.
EmitLine ==
    /\ present
    /\ Len(elog) < MaxLines
    /\ \E g \in Gaps, p \in BOOLEAN :
          LET ts == (IF elog = <<>> THEN 0 ELSE elog[Len(elog)].ts) + g
          IN /\ ts <= MaxTs
             /\ elog' = Append(elog, [ts |-> ts, payload |-> p])
    /\ UNCHANGED <<present, faultBudget, sinkVars, callerVars, histVars,
                   ulVars, attrs, cumVars>>
    /\ UNCHANGED <<logHistVars, startCallVars, startEnvVars>>

\* The answers the engine can give to a call on the container: the call
\* works when the container is there, NotFound when it is not, and a
\* generic APIError at any time.
Respond ==
    (IF present THEN {"ok"} ELSE {"NotFound"})
        \cup (IF faultBudget > 0 THEN {"APIError"} ELSE {})

\* Bookkeeping of one engine call `k` answered with `r`.
EngineCall(k, r) ==
    /\ r \in Respond
    /\ calls' = Append(calls, k)
    /\ faults' = IF r = "APIError" THEN faults + 1 ELSE faults
    /\ faultBudget' = IF r = "APIError" THEN faultBudget - 1 ELSE faultBudget
    /\ absentSeen' = (absentSeen \/ ~present)

\* containers.exists(id): a boolean, the library raises nothing here.
ExistsCall ==
    /\ calls' = Append(calls, "exists")
    /\ absentSeen' = (absentSeen \/ ~present)
    /\ UNCHANGED <<faults, faultBudget>>

\* ------------------------------------------------------------ the caller
\* An operation starts: the per-operation records are reset.
Begin(o, first) ==
    /\ pc = "idle"
    /\ nOps < MaxOps
    /\ op' = o
    /\ pc' = first
    /\ outcome' = NoOutcome
    /\ sink' = <<>>
    /\ calls' = <<>>
    /\ faults' = 0
    /\ absentSeen' = FALSE
    /\ existedOuter' = FALSE
    /\ existsAfterStop' = FALSE
    /\ since' = None
    /\ wmBefore' = None
    /\ got' = <<>>
    /\ ulRead' = FALSE
    /\ attrs' = NoAttrs
    /\ readLen' = 0
    /\ request' = NoRequest
    /\ retId' = ""
    /\ lookup' = "none"
    /\ pulled' = "none"
    /\ inlineAuth' = FALSE
    /\ authFileBefore' = auth_file
    /\ UNCHANGED <<engineVars, log_read_at, nOps, raced, cumVars, fwdCount,
                   startEnvVars>>

\* The operation in progress ends, returning (err = "none") or raising err.
Finish(err, st) ==
    /\ pc' = "idle"
    /\ op' = "none"
    /\ outcome' = [op |-> op, err |-> err, status |-> st.status,
                   message |-> st.message]
    /\ nOps' = nOps + 1
    /\ cleanups' = IF op = "cleanup" THEN cleanups + 1 ELSE cleanups

NoStatus == ContainerStatus("", NoMessage)

\* The operation goes on to its next engine call.
Stay(next) ==
    /\ pc' = next
    /\ UNCHANGED <<op, outcome, nOps, cleanups>>

\* ------------------------------------------------------ error handlers
\* update_logs, lines 272-273.
UpdateLogsHandler(e) ==
    IF IsAPIError(e) THEN "ContainerUpdateLogsError" ELSE e

\* _cleanup, lines 284-286.
PrivCleanupHandler(e) ==
    IF IsAPIError(e) THEN "ContainerCleanupError" ELSE e

\* cleanup, lines 100-101.
CleanupOuterHandlerMut(e) ==
    IF IsAPIError(e) THEN "none" ELSE e

CleanupOuterHandler(e) ==
    IF IsAPIError(e) THEN "ContainerCleanupError" ELSE e

\* cleanup, lines 93-98 then 100-101: what an error raised inside the inner
\* try (lines 85-92) becomes; NotFound is caught and cleanup returns.
CleanupInnerHandler(e) ==
    IF e = "NotFound" THEN "none" ELSE CleanupOuterHandler(e)

\* cleanup, lines 95-98: the notice written when the inner try catches
\* NotFound.
SinkAfterRaise(e, s) ==
    IF e = "NotFound" THEN Append(s, Notice("not found")) ELSE s

\* cleanup, line 82, and _cleanup, line 277: the guard of the teardown.
IfExistsMut(found) == TRUE

IfExists(found) == found

\* -------------------------------------------------------------- cleanup
CleanupBegin == Begin("cleanup", "cl_exists")

\* Line 82.
ClExists ==
    /\ pc = "cl_exists"
    /\ ExistsCall
    /\ existedOuter' = present
    /\ IF IfExists(present)
       THEN Stay("cl_get")
       ELSE Finish("none", NoStatus)
    /\ UNCHANGED <<present, elog, sinkVars, raced, existsAfterStop, ulVars,
                   attrs, removeCalls>>
    /\ UNCHANGED <<logHistVars, startCallVars, startEnvVars>>

\* Line 83.
ClGet ==
    /\ pc = "cl_get"
    /\ \E r \in Respond :
          /\ EngineCall("get", r)
          /\ IF r = "ok"
             THEN Stay("cl_stop")
             ELSE Finish(CleanupOuterHandler(r), NoStatus)
    /\ UNCHANGED <<present, elog, sinkVars, raced, existedOuter,
                   existsAfterStop, ulVars, attrs, removeCalls>>
    /\ UNCHANGED <<logHistVars, startCallVars, startEnvVars>>

\* Line 85.  A container run with remove=True (line 137) may be removed by
\* the engine as part of the stop.
ClStop ==
    /\ pc = "cl_stop"
    /\ \E r \in Respond :
          /\ EngineCall("stop", r)
          /\ IF r = "ok"
             THEN /\ \E auto \in BOOLEAN : present' = ~auto
                  /\ existsAfterStop' = present'
                  /\ sink' = sink
                  /\ Stay("ul_exists")
             ELSE /\ present' = present
                  /\ existsAfterStop' = present
                  /\ sink' = SinkAfterRaise(r, sink)
                  /\ Finish(CleanupInnerHandler(r), NoStatus)
    /\ UNCHANGED <<elog, log_read_at, raced, existedOuter, ulVars, attrs,
                   removeCalls>>
    /\ UNCHANGED <<logHistVars, startCallVars, startEnvVars>>

\* Line 277.
ClRmExists ==
    /\ pc = "cl_rm_exists"
    /\ ExistsCall
    /\ IF IfExists(present)
       THEN /\ Stay("cl_rm_get")
            /\ sink' = sink
       ELSE /\ sink' = Append(sink, Notice("cleaned up"))
            /\ Finish("none", NoStatus)
    /\ UNCHANGED <<present, elog, log_read_at, raced, existedOuter,
                   existsAfterStop, ulVars, attrs, removeCalls>>
    /\ UNCHANGED <<logHistVars, startCallVars, startEnvVars>>

\* Line 278.
ClRmGet ==
    /\ pc = "cl_rm_get"
    /\ \E r \in Respond :
          /\ EngineCall("get", r)
          /\ IF r = "ok"
             THEN /\ Stay("cl_remove")
                  /\ sink' = sink
             ELSE /\ sink' = SinkAfterRaise(PrivCleanupHandler(r), sink)
                  /\ Finish(CleanupInnerHandler(PrivCleanupHandler(r)), NoStatus)
    /\ UNCHANGED <<present, elog, log_read_at, raced, existedOuter,
                   existsAfterStop, ulVars, attrs, removeCalls>>
    /\ UNCHANGED <<logHistVars, startCallVars, startEnvVars>>

\* Lines 280-283, then lines 89-92.
ClRemove ==
    /\ pc = "cl_remove"
    /\ removeCalls' = removeCalls + 1
    /\ \E r \in Respond :
          /\ EngineCall("remove", r)
          /\ IF r \in {"ok", "NotFound"}
             THEN /\ present' = FALSE
                  /\ sink' = Append(sink, Notice("cleaned up"))
                  /\ Finish("none", NoStatus)
             ELSE /\ present' = present
                  /\ sink' = SinkAfterRaise(PrivCleanupHandler(r), sink)
                  /\ Finish(CleanupInnerHandler(PrivCleanupHandler(r)), NoStatus)
    /\ UNCHANGED <<elog, log_read_at, raced, existedOuter, existsAfterStop,
                   ulVars, attrs>>
    /\ UNCHANGED <<logHistVars, startCallVars, startEnvVars>>

\* ---------------------------------------------------------- update_logs
UpdateLogsBegin == Begin("update_logs", "ul_exists")

\* update_logs ends with `e` ("none": it returns): as the operation itself,
\* or at line 87 of cleanup, inside the inner try.
ReturnFromUpdateLogsMut(e, s) ==
    IF op = "cleanup"
    THEN /\ Stay("cl_rm_exists")
         /\ sink' = s
    ELSE /\ sink' = s
         /\ Finish(e, NoStatus)

ReturnFromUpdateLogs(e, s) ==
    IF op = "cleanup"
    THEN IF e = "none"
         THEN /\ Stay("cl_rm_exists")
              /\ sink' = s
         ELSE /\ sink' = SinkAfterRaise(e, s)
              /\ Finish(CleanupInnerHandler(e), NoStatus)
    ELSE /\ sink' = s
         /\ Finish(e, NoStatus)

\* Lines 242-250.
UlExists ==
    /\ pc = "ul_exists"
    /\ ExistsCall
    /\ wmBefore' = log_read_at
    /\ IF present
       THEN /\ since' = Since(log_read_at)
            /\ sink' = sink
            /\ Stay("ul_get")
       ELSE /\ since' = since
            /\ ReturnFromUpdateLogs("none", Append(sink, Notice("not found")))
    /\ UNCHANGED <<present, elog, log_read_at, raced, existedOuter,
                   existsAfterStop, got, ulRead, attrs, removeCalls>>
    /\ UNCHANGED <<logHistVars, startCallVars, startEnvVars>>

\* Line 252.
UlGet ==
    /\ pc = "ul_get"
    /\ \E r \in Respond :
          /\ EngineCall("get", r)
          /\ IF r = "ok"
             THEN /\ Stay("ul_logs")
                  /\ sink' = sink
             ELSE ReturnFromUpdateLogs(UpdateLogsHandler(r), sink)
    /\ UNCHANGED <<present, elog, log_read_at, raced, existedOuter,
                   existsAfterStop, ulVars, attrs, removeCalls>>
    /\ UNCHANGED <<logHistVars, startCallVars, startEnvVars>>

\* Lines 253-269.
UlLogs ==
    /\ pc = "ul_logs"
    /\ \E r \in Respond :
          /\ EngineCall("logs", r)
          /\ IF r = "ok"
             THEN \E order \in Orders(LogLines(elog, since)) :
                     /\ got' = order
                     /\ ulRead' = TRUE
                     /\ readLen' = Len(elog)
                     /\ fwdCount' = CountForwarded(fwdCount, elog, order)
                     /\ log_read_at' = NewLogReadAt(elog, order, log_read_at)
                     /\ ReturnFromUpdateLogs("none",
                            sink \o Forwarded(elog, order))
             ELSE /\ UNCHANGED <<got, ulRead, log_read_at, logHistVars>>
                  /\ ReturnFromUpdateLogs(UpdateLogsHandler(r), sink)
    /\ UNCHANGED <<present, elog, raced, existedOuter, existsAfterStop,
                   since, wmBefore, attrs, removeCalls>>
    /\ UNCHANGED <<startCallVars, startEnvVars>>

\* ----------------------------------------------------------- get_status
GetStatusBegin == Begin("get_status", "gs_exists")

\* Lines 165-168.
GsExists ==
    /\ pc = "gs_exists"
    /\ ExistsCall
    /\ IF present
       THEN Stay("gs_get")
       ELSE Finish("ContainerNotFoundError", NoStatus)
    /\ UNCHANGED <<present, elog, sinkVars, raced, existedOuter,
                   existsAfterStop, ulVars, attrs, removeCalls>>
    /\ UNCHANGED <<logHistVars, startCallVars, startEnvVars>>

\* Lines 170-238: the fetch is outside any try, and the container fetched
\* is in whatever state the engine reports.
GsGet ==
    /\ pc = "gs_get"
    /\ \E r \in Respond :
          /\ EngineCall("get", r)
          /\ IF r = "ok"
             THEN \E st \in EngineStates, ec \in ExitCodes, er \in ErrorTexts :
                     /\ attrs' = [status |-> st, exit_code |-> ec, error |-> er]
                     /\ Finish("none", GetStatus(CID, st, ec, er))
             ELSE /\ attrs' = attrs
                  /\ Finish(r, NoStatus)
    /\ UNCHANGED <<present, elog, sinkVars, raced, existedOuter,
                   existsAfterStop, ulVars, removeCalls>>
    /\ UNCHANGED <<logHistVars, startCallVars, startEnvVars>>

\* ---------------------------------------------------------------- start
\* start, lines 154-162: the errors the except clause of start catches
\* become ContainerStartError, the others pass.
StartCatches(e) == IsAPIError(e) \/ e = "ContainerError"

StartHandlerMut(e) ==
    IF IsAPIError(e) THEN "ContainerStartError" ELSE e

StartHandler(e) ==
    IF StartCatches(e) THEN "ContainerStartError" ELSE e

\* start, lines 159-161: the line written when the except clause catches.
StartHandlerSink(e, s) ==
    IF StartCatches(e) THEN Append(s, Notice("Container Start Error")) ELSE s

\* _login, lines 311-313.
LoginHandler(e) ==
    IF IsAPIError(e) THEN "ContainerStartError" ELSE e

\* _pull_image, lines 378-385: ImageNotFound is matched first.
PullHandler(e) ==
    IF e = "ImageNotFound" THEN "ContainerImagePullError"
    ELSE IF IsAPIError(e) THEN "ContainerStartError"
    ELSE e

\* _pull_image, lines 366-385: how _pull_image ends for an answer of the
\* pull call ("none": it returns the image); "noid" is an image without id.
PullOutcomeMut(r) ==
    IF r \in {"ok", "noid"} THEN "none" ELSE PullHandler(r)

PullOutcome(r) ==
    IF r = "ok" THEN "none"
    ELSE IF r = "noid" THEN PullHandler("ContainerImagePullError")
    ELSE PullHandler(r)

\* _pull_image, lines 357 and 369-382: what _pull_image writes to the log
\* handler.
PullSink(r, s) ==
    LET s1 == Append(s, Notice("Pulling image"))
    IN IF r = "noid" THEN Append(s1, Notice("Image pull error"))
       ELSE IF r = "ImageNotFound" THEN Append(s1, Notice("Image not found"))
       ELSE s1

\* start, line 111.
MissingImageUrlMut(image_url) == FALSE

MissingImageUrl(image_url) == image_url = <<>>

\* start, lines 118-120: the pull is needed when the policy is Always (the
\* lookup is then not made) or the image was not found.
NeedsPullMut(pull_policy, exists) == ~exists

NeedsPull(pull_policy, exists) == pull_policy = "Always" \/ ~exists

\* The answers of the engine to a call of start: it works, or it fails
\* with one of `errs`.
StartRespond(errs) ==
    {"ok"} \cup (IF faultBudget > 0 THEN errs ELSE {})

\* Bookkeeping of one engine call `k` of start answered with `r`.
StartCall(k, r) ==
    /\ calls' = Append(calls, k)
    /\ faults' = IF r \in {"ok", "noid"} THEN faults ELSE faults + 1
    /\ faultBudget' = IF r \in {"ok", "noid"} THEN faultBudget
                      ELSE faultBudget - 1

\* Lines 110-115.
StartBegin ==
    /\ pc = "idle"
    /\ nOps < MaxOps
    /\ \E url \in ImageUrls, pol \in PullPolicies,
          cred \in Credentials \cup {NoCredential} :
          /\ request' = [image_url |-> url, pull_policy |-> pol,
                         credential |-> cred]
          /\ IF MissingImageUrl(url)
             THEN /\ pc' = "idle"
                  /\ op' = "none"
                  /\ outcome' = [op |-> "start", err |-> "ContainerStartError",
                                 status |-> "",
                                 message |-> EngineText("Missing image url")]
                  /\ nOps' = nOps + 1
                  /\ auth_file' = auth_file
             ELSE /\ pc' = "st_login"
                  /\ op' = "start"
                  /\ outcome' = NoOutcome
                  /\ nOps' = nOps
                  /\ auth_file' = SetAuthJsonFile(authDir)
    /\ sink' = <<>>
    /\ calls' = <<>>
    /\ faults' = 0
    /\ absentSeen' = FALSE
    /\ existedOuter' = FALSE
    /\ existsAfterStop' = FALSE
    /\ since' = None
    /\ wmBefore' = None
    /\ got' = <<>>
    /\ ulRead' = FALSE
    /\ attrs' = NoAttrs
    /\ readLen' = 0
    /\ retId' = ""
    /\ lookup' = "none"
    /\ pulled' = "none"
    /\ inlineAuth' = FALSE
    /\ authFileBefore' = auth_file
    /\ UNCHANGED <<engineVars, log_read_at, raced, cumVars, fwdCount,
                   authDir, fileAuths, imagePresent>>

\* Line 116 and _login, lines 295-313; then the first half of line 118.
StLogin ==
    /\ pc = "st_login"
    /\ LET next == IF NeedsPull(request.pull_policy, TRUE)
                   THEN "st_pull" ELSE "st_lookup"
       IN IF request.credential = NoCredential
          THEN /\ Stay(next)
               /\ UNCHANGED <<calls, faults, faultBudget, sink>>
          ELSE \E r \in StartRespond({"APIError"}) :
                  /\ StartCall("login", r)
                  /\ IF r = "ok"
                     THEN /\ Stay(next)
                          /\ sink' = sink
                     ELSE /\ sink' = StartHandlerSink(LoginHandler(r), sink)
                          /\ Finish(StartHandler(LoginHandler(r)), NoStatus)
    /\ UNCHANGED <<present, elog, log_read_at, absentSeen, raced,
                   existedOuter, existsAfterStop, ulVars, attrs, removeCalls,
                   logHistVars, startCallVars, startEnvVars>>

\* Lines 118-120 and _image_exists, lines 103-108: ImageNotFound is the
\* answer "not there", any other failure leaves _image_exists.
StLookup ==
    /\ pc = "st_lookup"
    /\ \E r \in (IF imagePresent THEN {"ok"} ELSE {"ImageNotFound"})
                  \cup (IF faultBudget > 0 THEN {"APIError"} ELSE {}) :
          /\ calls' = Append(calls, "images.get")
          /\ faults' = IF r = "APIError" THEN faults + 1 ELSE faults
          /\ faultBudget' = IF r = "APIError" THEN faultBudget - 1
                            ELSE faultBudget
          /\ IF r = "APIError"
             THEN /\ lookup' = lookup
                  /\ sink' = StartHandlerSink(r, sink)
                  /\ Finish(StartHandler(r), NoStatus)
             ELSE /\ lookup' = IF r = "ok" THEN "found" ELSE "missing"
                  /\ sink' = sink
                  /\ Stay(IF NeedsPull(request.pull_policy, r = "ok")
                          THEN "st_pull" ELSE "st_run")
    /\ UNCHANGED <<present, elog, log_read_at, absentSeen, raced,
                   existedOuter, existsAfterStop, ulVars, attrs, removeCalls,
                   logHistVars, request, retId, pulled, inlineAuth,
                   authFileBefore, startEnvVars>>

\* Line 121 and _pull_image, lines 353-385.
StPull ==
    /\ pc = "st_pull"
    /\ inlineAuth' = (request.credential # NoCredential)
    /\ fileAuths' = IF request.credential # NoCredential
                    THEN WriteAuthJson(auth_file, fileAuths, request)
                    ELSE fileAuths
    /\ \E r \in StartRespond({"ImageNotFound", "APIError"}) \cup {"noid"} :
          /\ StartCall("pull", r)
          /\ pulled' = r
          /\ sink' = StartHandlerSink(PullOutcome(r), PullSink(r, sink))
          /\ imagePresent' = IF r = "ok" THEN TRUE ELSE imagePresent
          /\ IF PullOutcome(r) = "none"
             THEN Stay("st_run")
             ELSE Finish(StartHandler(PullOutcome(r)), NoStatus)
    /\ UNCHANGED <<present, elog, log_read_at, absentSeen, raced,
                   existedOuter, existsAfterStop, ulVars, attrs, removeCalls,
                   logHistVars, request, retId, lookup, authFileBefore,
                   auth_file, authDir>>

\* Lines 123-153.
StRun ==
    /\ pc = "st_run"
    /\ \E r \in StartRespond({"APIError", "ImageNotFound", "ContainerError"}) :
          LET s1 == sink \o <<Notice("Starting Container"),
                              Notice("Container args")>>
          IN /\ StartCall("run", r)
             /\ IF r = "ok"
                THEN /\ retId' = NewId
                     /\ sink' = Append(s1, Notice("Container is started"))
                     /\ Finish("none", NoStatus)
                ELSE /\ retId' = retId
                     /\ sink' = StartHandlerSink(r, s1)
                     /\ Finish(StartHandler(r), NoStatus)
    /\ UNCHANGED <<present, elog, log_read_at, absentSeen, raced,
                   existedOuter, existsAfterStop, ulVars, attrs, removeCalls,
                   logHistVars, request, lookup, pulled, inlineAuth,
                   authFileBefore, startEnvVars>>

\* The runtime directory of the auth file comes into being.
AuthDirAppears ==
    /\ ~authDir
    /\ authDir' = TRUE
    /\ UNCHANGED <<engineVars, sinkVars, callerVars, histVars, ulVars, attrs,
                   cumVars, logHistVars, startCallVars, auth_file, fileAuths,
                   imagePresent>>

\* Another client records its login to a registry in the auth file.
OtherLogin ==
    /\ authDir
    /\ \E r \in Registries :
          /\ fileAuths[r] = NoEntry
          /\ fileAuths' = [fileAuths EXCEPT ![r] = OtherEntry]
    /\ UNCHANGED <<engineVars, sinkVars, callerVars, histVars, ulVars, attrs,
                   cumVars, logHistVars, startCallVars, auth_file, authDir,
                   imagePresent>>

\* Another client pulls the image, or removes it.
ImageChanges ==
    /\ imagePresent' = ~imagePresent
    /\ UNCHANGED <<engineVars, sinkVars, callerVars, histVars, ulVars, attrs,
                   cumVars, logHistVars, startCallVars, auth_file, authDir,
                   fileAuths>>

\* ---------------------------------------------------------------- Next
\* The steps of update_logs after its first line, shared by update_logs as
\* an operation and by the final log update of cleanup.
UpdateLogsSteps ==
    \/ UlExists
    \/ UlGet
    \/ UlLogs

\* A caller that only cleans up.
NextCleanup ==
    \/ OutOfBandRemove
    \/ EmitLine
    \/ CleanupBegin
    \/ ClExists
    \/ ClGet
    \/ ClStop
    \/ ClRmExists
    \/ ClRmGet
    \/ ClRemove
    \/ UpdateLogsSteps

\* A caller that only tails the log.
NextLogs ==
    \/ OutOfBandRemove
    \/ EmitLine
    \/ UpdateLogsBegin
    \/ UpdateLogsSteps

\* A caller that only polls the status.
NextStatus ==
    \/ OutOfBandRemove
    \/ GetStatusBegin
    \/ GsExists
    \/ GsGet

\* A caller that only starts containers.
NextStart ==
    \/ AuthDirAppears
    \/ OtherLogin
    \/ ImageChanges
    \/ StartBegin
    \/ StLogin
    \/ StLookup
    \/ StPull
    \/ StRun

\* A caller that uses every operation.
Next ==
    \/ NextCleanup
    \/ NextLogs
    \/ NextStatus
    \/ NextStart

SpecCleanup == Init /\ [][NextCleanup]_vars
SpecLogs == Init /\ [][NextLogs]_vars
SpecStatus == Init /\ [][NextStatus]_vars
SpecStart == Init /\ [][NextStart]_vars
Spec == Init /\ [][Next]_vars

\* =============================================================== claims
\* The operation `o` has ended and nothing has been started since.
Done(o) == pc = "idle" /\ outcome.op = o

\* The operation in progress (or just ended) has made the engine call `k`.
Called(k) == \E i \in 1..Len(calls) : calls[i] = k

\* The engine has answered no generic failure so far, and the container
\* was never removed in the middle of an operation.
Undisturbed == faultBudget = MaxFaults /\ ~raced

\* The states the status mapping documents.
DocumentedStates ==
    {"exited", "stopped", "running", "stopping", "created", "paused",
     "restarting", "removing", "dead", "configured", "unknown"}

\* get_status has ended after fetching the container.
Translated == Done("get_status") /\ attrs # NoAttrs

\* C1: cleanup is idempotent.  With an engine that answers no generic
\* failure and a container that is not removed while a call is running,
\* every cleanup of a sequence of calls returns without raising, and the
\* engine has received at most one remove call over the whole sequence;
\* a cleanup that finds the container absent at its existence check
\* returns having made no other engine call (no stop, no log read, no
\* remove) and having written nothing.
CleanupIdempotent ==
    /\ (Done("cleanup") /\ Undisturbed) =>
          (outcome.err = "none" /\ removeCalls <= 1)
    /\ (Done("cleanup") /\ ~existedOuter) =>
          (outcome.err = "none" /\ calls = <<"exists">> /\ sink = <<>>)

\* C1 witness: the second cleanup of a sequence has returned; the first
\* one removed the container, the second found it absent.
CleanupTwiceDone ==
    /\ Done("cleanup")
    /\ cleanups = 2
    /\ Undisturbed
    /\ removeCalls = 1
    /\ ~existedOuter
    /\ outcome.err = "none"

\* C2: a cleanup of a container that existed at the outer existence check
\* returns normally when the engine answered nothing worse than not-found,
\* and raises ContainerCleanupError, and nothing else, when an engine call
\* failed otherwise.
CleanupRaisesOnlyCleanupError ==
    (Done("cleanup") /\ existedOuter) =>
        IF faults = 0
        THEN outcome.err = "none"
        ELSE outcome.err = "ContainerCleanupError"

\* C3: a cleanup that found the container at the outer existence check,
\* went on to the final log update after the stop, and ends with the
\* container still in the engine, has issued a force-remove.
CleanupAlwaysRemoves ==
    (/\ Done("cleanup")
     /\ existedOuter
     /\ existsAfterStop
     /\ Len(calls) >= 4
     /\ present) => Called("remove")

\* C4: for a fetched container whose state is not a documented one,
\* get_status returns (does not raise) the status ERROR with a message
\* that names the state.
UndocumentedStateIsError ==
    (Translated /\ attrs.status \notin DocumentedStates) =>
        /\ outcome.err = "none"
        /\ outcome.status = "ERROR"
        /\ outcome.message.pod_state = attrs.status

\* C4 witness: get_status has translated an undocumented state.
UndocumentedStateSeen ==
    /\ Translated
    /\ attrs.status = "weird"
    /\ outcome.status = "ERROR"

\* C5: an exited or stopped container with exit code 0 is COMPLETED,
\* whatever its error text.
ExitZeroIsCompleted ==
    (Translated /\ attrs.status \in {"exited", "stopped"}
                /\ attrs.exit_code = 0) =>
        (outcome.err = "none" /\ outcome.status = "COMPLETED")

\* C5 witness: an exit code 0 with a stray error text was translated.
ExitZeroWithErrorTextSeen ==
    /\ Translated
    /\ attrs.status = "exited"
    /\ attrs.exit_code = 0
    /\ attrs.error = "oom"
    /\ outcome.status = "COMPLETED"

\* C6: get_status follows the mapping table, row by row, and returns
\* RUNNING or COMPLETED for no input outside of their rows.
StatusFollowsTable ==
    Translated =>
        LET s == attrs.status
            c == attrs.exit_code
            e == attrs.error
            m == outcome.message
        IN /\ outcome.err = "none"
           /\ (s \in {"exited", "stopped"} /\ c = 0) =>
                 outcome.status = "COMPLETED"
           /\ (s \in {"exited", "stopped"} /\ c # 0) =>
                 /\ outcome.status = "FAILED"
                 /\ IF e # "" THEN m.text = e
                    ELSE m.pod_id = CID /\ m.exit_code = c
           /\ s \in {"running", "stopping"} => outcome.status = "RUNNING"
           /\ s = "created" =>
                 /\ outcome.status = "FAILED"
                 /\ IF e # "" THEN m.text = e
                    ELSE m.text = "POD_NOT_RUNNING" /\ m.pod_id = CID
           /\ s \in {"paused", "restarting", "removing", "dead",
                     "configured", "unknown"} =>
                 /\ outcome.status = "FAILED"
                 /\ m.text = "POD_WRONG_STATE"
                 /\ m.pod_state = s
           /\ outcome.status = "RUNNING" => s \in {"running", "stopping"}
           /\ outcome.status = "COMPLETED" =>
                 (s \in {"exited", "stopped"} /\ c = 0)

\* C6 witness: a created container without error text was translated to
\* FAILED with the pod-not-running message.
CreatedWithoutErrorSeen ==
    /\ Translated
    /\ attrs.status = "created"
    /\ attrs.error = ""
    /\ outcome.status = "FAILED"
    /\ outcome.message.text = "POD_NOT_RUNNING"

\* C7: a get_status during which the container was absent at some engine
\* call, the engine answering no generic failure, ends with the adapter's
\* ContainerNotFoundError (it returns no status and raises no error of the
\* engine library).
AbsentIsContainerNotFoundError ==
    (Done("get_status") /\ absentSeen /\ faults = 0) =>
        outcome.err = "ContainerNotFoundError"

\* C8 (as stated): the "since" of a log request made with watermark T is
\* at least T + 1 second, and there is no "since" without a watermark.
SinceIsWatermarkPlusOneSecond ==
    Called("logs") =>
        IF wmBefore = None
        THEN ~HasSinceArg(since)
        ELSE /\ HasSinceArg(since)
             /\ since * UnitsPerSec >= wmBefore + UnitsPerSec

\* C8 (amended): the "since" of a log request made with watermark T is the
\* first whole second after T (the second of T, plus one): it is after T,
\* at most one second after T, and every line delivered is timestamped at
\* or after it; there is no "since" without a watermark.
SinceIsNextWholeSecond ==
    Called("logs") =>
        IF wmBefore = None
        THEN ~HasSinceArg(since)
        ELSE /\ HasSinceArg(since)
             /\ since * UnitsPerSec > wmBefore
             /\ since * UnitsPerSec <= wmBefore + UnitsPerSec
             /\ (since - 1) * UnitsPerSec <= wmBefore
             /\ \A k \in 1..Len(got) :
                   /\ elog[got[k]].ts >= since * TicksPerSec
                   /\ elog[got[k]].ts > wmBefore * SubTicks

\* C8 witness: a request made with a watermark that is not on a whole
\* second has delivered a line less than one second after the watermark.
LineWithinOneSecondDelivered ==
    /\ ulRead
    /\ wmBefore # None
    /\ wmBefore % UnitsPerSec # 0
    /\ \E k \in 1..Len(got) :
          elog[got[k]].ts < (wmBefore + UnitsPerSec) * SubTicks

\* The lines of a delivery that carry a payload, in delivery order.
WithPayload(order) == SelectSeq(order, LAMBDA i : elog[i].payload)

\* C9 (as stated): after a log read the watermark is the timestamp of the
\* last line forwarded (unchanged if the read forwarded none), and not
\* less than before.
WatermarkIsLastForwarded ==
    ulRead =>
        LET f == WithPayload(got)
        IN /\ IF f = <<>>
              THEN log_read_at = wmBefore
              ELSE log_read_at = Parse(elog[f[Len(f)]].ts)
           /\ log_read_at >= wmBefore

\* C9 (amended): after a log read the watermark is the timestamp, at the
\* watermark's precision, of the last line delivered, with or without a
\* payload; it is not less than before, and a read that delivers no line
\* leaves it unchanged.
WatermarkIsLastRead ==
    ulRead =>
        /\ IF got = <<>>
           THEN log_read_at = wmBefore
           ELSE log_read_at = Parse(elog[got[Len(got)]].ts)
        /\ log_read_at >= wmBefore

\* C9 witness: a read has delivered two lines out of order, the first one
\* with a payload and the last one without.
OutOfOrderReadDone ==
    /\ ulRead
    /\ Len(got) = 2
    /\ got[1] > got[2]
    /\ ~elog[got[2]].payload
    /\ elog[got[1]].payload

\* C10: an update_logs during which the container was absent at some
\* engine call, the engine answering no generic failure, writes the
\* not-found notice, returns without raising and leaves the watermark as
\* it was; and update_logs raises ContainerUpdateLogsError only after a
\* generic engine failure.
AbsentLogsIsBenign ==
    /\ (Done("update_logs") /\ absentSeen /\ faults = 0) =>
          /\ outcome.err = "none"
          /\ \E i \in 1..Len(sink) : sink[i] = Notice("not found")
          /\ log_read_at = wmBefore
    /\ (Done("update_logs") /\ outcome.err = "ContainerUpdateLogsError") =>
          faults > 0

\* ------------------------------------------------------ claims on start
\* The number of engine calls `k` of the operation in progress (or just
\* ended).
Count(k) == Cardinality({i \in 1..Len(calls) : calls[i] = k})

\* A start that passed the check of the image reference is running or has
\* just ended.
StartActive ==
    \/ op = "start"
    \/ Done("start") /\ request.image_url # <<>>

\* The lines of the log handler that describe a failure of start.
FailureTexts ==
    {"Container Start Error", "Image pull error", "Image not found"}

\* C11: a start with an empty image reference raises ContainerStartError
\* with the text "Missing image url", has made no engine call and leaves the
\* cached auth-file path as it was; no start goes on with an empty
\* reference.
MissingImageUrlFailsEarly ==
    /\ op = "start" => request.image_url # <<>>
    /\ (Done("start") /\ request.image_url = <<>>) =>
          /\ outcome.err = "ContainerStartError"
          /\ outcome.message = EngineText("Missing image url")
          /\ calls = <<>>
          /\ auth_file = authFileBefore

\* C11 witness: a start with an empty reference has ended while the
\* auth-file directory exists and no path is cached, so refreshing the path
\* would have changed it.
MissingImageUrlSeen ==
    /\ Done("start")
    /\ request.image_url = <<>>
    /\ authDir
    /\ auth_file = NoPath

\* C12: start pulls exactly when the policy is Always or the lookup did not
\* find the image: a pull is made or due only in these cases, in these
\* cases the run is not reached without the pull, and with policy Always no
\* lookup is made; a start with another policy that found the image and met
\* no engine failure has pulled nothing, made exactly one run call and
\* returned a non-empty id.
PullExactlyWhenNeeded ==
    StartActive =>
       /\ (Called("pull") \/ pc = "st_pull") =>
             (request.pull_policy = "Always" \/ lookup = "missing")
       /\ ((pc = "st_run" \/ Called("run"))
              /\ (request.pull_policy = "Always" \/ lookup = "missing")) =>
             Called("pull")
       /\ request.pull_policy = "Always" => lookup = "none"
       /\ (Done("start") /\ request.pull_policy # "Always"
              /\ lookup = "found" /\ faults = 0) =>
             /\ ~Called("pull")
             /\ Count("run") = 1
             /\ outcome.err = "none"
             /\ retId # ""

\* C12 witness: a start with policy IfNotPresent that found the image has
\* returned an id without pulling.
PresentImageStarted ==
    /\ Done("start")
    /\ request.pull_policy = "IfNotPresent"
    /\ lookup = "found"
    /\ ~Called("pull")
    /\ retId = NewId

\* C13 as stated: a start during which the engine answered a failure ends
\* with ContainerStartError.
EngineErrorsBecomeStartError ==
    (Done("start") /\ faults > 0) => outcome.err = "ContainerStartError"

\* C13: a start during which the engine answered a failure (the answer
\* "image not found" of the lookup is not one, it leads to the pull) ends
\* with an error of the adapter: ContainerImagePullError when the pull
\* answered image-not-found, ContainerStartError for every other failure
\* of the login, the lookup, the pull or the run.
EngineErrorsBecomeAdapterErrors ==
    /\ (Done("start") /\ faults > 0) =>
          /\ outcome.err \in {"ContainerStartError", "ContainerImagePullError"}
          /\ outcome.err = "ContainerImagePullError" <=>
                pulled = "ImageNotFound"
    /\ (StartActive /\ lookup = "missing") =>
          (pc = "st_pull" \/ Called("pull"))

\* C13 witness: the pull answered image-not-found and start has ended with
\* ContainerImagePullError.
PullNotFoundSeen ==
    /\ Done("start")
    /\ pulled = "ImageNotFound"
    /\ outcome.err = "ContainerImagePullError"

\* C14 as stated: a start that has raised has written a line describing
\* the failure to the log handler during the call.
StartErrorsAreLogged ==
    (Done("start") /\ outcome.err # "none") =>
       \E i \in 1..Len(sink) :
          sink[i].kind = "notice" /\ sink[i].text \in FailureTexts

\* base64 decoding: four symbols give three bytes, fewer when the group
\* ends with Pad.
RECURSIVE B64Decode(_)
B64Decode(text) ==
    IF Len(text) < 4 THEN <<>>
    ELSE LET c3 == IF text[3] = Pad THEN 0 ELSE text[3]
             c4 == IF text[4] = Pad THEN 0 ELSE text[4]
             v == text[1] * 262144 + text[2] * 4096 + c3 * 64 + c4
         IN <<v \div 65536>>
               \o (IF text[3] = Pad THEN <<>> ELSE <<(v \div 256) % 256>>)
               \o (IF text[4] = Pad THEN <<>> ELSE <<v % 256>>)
               \o B64Decode(SubSeq(text, 5, Len(text)))

\* C15: the step of start that pulls, for a request with a credential and
\* a cached auth-file path, leaves in the file an entry for the request's
\* registry that decodes to username ":" secret and leaves the entry of
\* every other registry as it was; without a cached path, and so whenever
\* the directory is absent, the file is left as it was; with a credential
\* the pull call is given the credential inline in every case.
AuthFileWriteMerges ==
    [][(pc = "st_pull" /\ pc' # "st_pull") =>
          LET cred == request.credential
              R == Registry(request.image_url)
          IN /\ cred # NoCredential => inlineAuth'
             /\ ~authDir => fileAuths' = fileAuths
             /\ IF cred # NoCredential /\ auth_file # NoPath
                THEN /\ B64Decode(fileAuths'[R]) =
                           cred.username \o <<Colon>> \o cred.secret
                     /\ \A r \in Registries \ {R} :
                           fileAuths'[r] = fileAuths[r]
                ELSE fileAuths' = fileAuths]_vars

\* C15 witness: a pull with a credential was made with a cached path, the
\* file holds the request's entry and the entry another client wrote for
\* another registry.
AuthFileMergedSeen ==
    /\ StartActive
    /\ Called("pull")
    /\ inlineAuth
    /\ auth_file = AuthPath
    /\ fileAuths[Registry(request.image_url)] =
          CreateAuthKey(request.credential)
    /\ \E r \in Registries \ {Registry(request.image_url)} :
          fileAuths[r] = OtherEntry

\* C18: start makes at most one run call, and reaches the run only when
\* the lookup found the image under a policy other than Always or the pull
\* returned an image with an id; after a failed login, or a pull that
\* answered image-not-found, no id or another failure, start has ended
\* with an error, without a run call and without an id; with a credential
\* the login is the first engine call.
RunOnlyAfterImageEnsured ==
    StartActive =>
       /\ Count("run") <= 1
       /\ (pc = "st_run" \/ Called("run")) =>
             \/ lookup = "found" /\ request.pull_policy # "Always"
             \/ pulled = "ok"
       /\ ((calls = <<"login">> /\ faults > 0)
              \/ pulled \in {"ImageNotFound", "noid", "APIError"}) =>
             /\ Done("start")
             /\ outcome.err # "none"
             /\ ~Called("run")
             /\ retId = ""
       /\ (request.credential # NoCredential /\ calls # <<>>) =>
             calls[1] = "login"
       /\ request.credential = NoCredential => ~Called("login")

\* C18 witness: a start with a credential has logged in, pulled an image
\* with an id, run the container and returned its id.
LoginPullRunSeen ==
    /\ Done("start")
    /\ Called("login")
    /\ pulled = "ok"
    /\ Called("run")
    /\ retId = NewId

\* ---------------------------------------------------- claims on cleanup
\* C16: a cleanup that issues the remove has made its engine calls in the
\* order of stop, one final log read, remove, and the final log update had
\* returned; the remove phase is entered only after the log update; a
\* cleanup whose stop answered not-found (the notice is written and stop is
\* the last call) has ended there, without a remove.
CleanupStopsLogsThenRemoves ==
    (op = "cleanup" \/ Done("cleanup")) =>
       /\ Called("remove") =>
             /\ calls = <<"exists", "get", "stop", "exists", "get", "logs",
                          "exists", "get", "remove">>
             /\ ulRead
       /\ Count("logs") <= 1
       /\ pc \in {"cl_rm_exists", "cl_rm_get", "cl_remove"} =>
             /\ Called("stop")
             /\ Count("logs") = 1 => ulRead
       /\ (calls = <<"exists", "get", "stop">>
              /\ \E i \in 1..Len(sink) : sink[i] = Notice("not found")) =>
             Done("cleanup")

\* C16 witness: a cleanup has ended after issuing the remove.
CleanupRemoveIssued ==
    /\ Done("cleanup")
    /\ existedOuter
    /\ Called("remove")
    /\ outcome.err = "none"

\* C17: when cleanup has returned without raising, the engine does not
\* have the container.
CleanupReturnMeansGone ==
    (Done("cleanup") /\ outcome.err = "none") => ~present

\* C17 witness: a cleanup returned without raising and without issuing the
\* remove although the container existed at the outer check: it was
\* removed out of band while the cleanup ran.
CleanupReturnedAfterRace ==
    /\ Done("cleanup")
    /\ outcome.err = "none"
    /\ existedOuter
    /\ raced
    /\ ~Called("remove")

\* ----------------------------------------- claims on the forwarded lines
\* C19 as stated: no line has been forwarded to the log handler more than
\* once by the successful update_logs calls so far.
NoLineForwardedTwice ==
    \A i \in 1..MaxLines : fwdCount[i] <= 1

\* C20 as stated: when update_logs has returned after reading the log,
\* every line with a payload emitted before that read has been forwarded by
\* some update_logs call.
NoLineLost ==
    (Done("update_logs") /\ ulRead) =>
       \A i \in 1..readLen : elog[i].payload => fwdCount[i] >= 1

====
